---------------------------- MODULE Spec2Model ----------------------------
(*************************************************************************)
(* A model of server.py: the sample store, the six tool handlers the     *)
(* protocol runtime dispatches to, and the command-line bootstrap.       *)
(*                                                                       *)
(* Python values are represented as follows.                             *)
(*   - an optional argument is a set: None is {} and a given value v is  *)
(*     {v};                                                              *)
(*   - the text arguments of count_words and echo_message are sequences  *)
(*     of one-character strings (a str is indexed and measured);         *)
(*   - the expression argument of calculate is a sequence of tokens;     *)
(*   - every other str is a TLA+ string;                                 *)
(*   - a dict of the sample store is a record, its key order given by    *)
(*     dict_keys.                                                        *)
(* The handlers are coroutines without a suspension point, so each runs  *)
(* to completion as one action.                                          *)
(*************************************************************************)
EXTENDS Integers, Sequences, FiniteSets, TLC

VARIABLES
    pc,           \* position of the __main__ block
    argv,         \* the command line: the flags given to the process
    args,         \* the namespace parse_args returned (None before it)
    runCalls,     \* the calls of mcp.run made so far, with their arguments
    SAMPLE_DATA,  \* the module-level sample store
    request,      \* the tool call the runtime is dispatching (None when idle)
    response,     \* what its handler produced (None until the handler has run)
    firstUsers    \* history: what the first get_users call produced and whether
                  \* get_users was called again since (None before the first)

vars == <<pc, argv, args, runCalls, SAMPLE_DATA, request, response, firstUsers>>

None == {}

Some(v) == {v}

\* The value of a given optional argument.
TheValue(o) == CHOOSE v \in o : TRUE

\* A handler returning value v.
Return(v) == [kind |-> "return", value |-> v]

\* A handler left by an exception of class exc, which propagates to the
\* protocol runtime.
Raise(exc) == [kind |-> "raise", exc |-> exc]

-----------------------------------------------------------------------------
(* Bounds of the model.                                                  *)

\* Longest text given to count_words, in characters.
MaxTextLen == 5

\* Longest message given to echo_message, in characters.
MaxMsgLen == 3

\* Longest expression given to calculate, in tokens (SampleExpressions are
\* longer).
MaxTokens == 2

\* Largest user_id given to get_tasks.
MaxUserId == 3

\* Latest reading of the system clock, in seconds after the earliest.
MaxClock == 1

-----------------------------------------------------------------------------
(* Generic sequence helpers.                                             *)

\* All sequences over S of length at most n.
SeqsUpTo(S, n) == UNION {[1..k -> S] : k \in 0..n}

RECURSIVE Flatten(_)
\* The concatenation of a sequence of sequences.
Flatten(ss) == IF ss = <<>> THEN <<>> ELSE Head(ss) \o Flatten(Tail(ss))

RECURSIVE Join(_, _)
\* sep.join(strs) on a sequence of strings.
Join(strs, sep) ==
    IF strs = <<>> THEN ""
    ELSE IF Len(strs) = 1 THEN strs[1]
    ELSE strs[1] \o sep \o Join(Tail(strs), sep)

-----------------------------------------------------------------------------
(* The sample store.                                                     *)

SampleUsers ==
    << [id |-> 1, name |-> "Alice",   email |-> "alice@example.com"],
       [id |-> 2, name |-> "Bob",     email |-> "bob@example.com"],
       [id |-> 3, name |-> "Charlie", email |-> "charlie@example.com"] >>

SampleTasks ==
    << [id |-> 1, title |-> "Complete project",    status |-> "in_progress", user_id |-> 1],
       [id |-> 2, title |-> "Review code",         status |-> "pending",     user_id |-> 2],
       [id |-> 3, title |-> "Write documentation", status |-> "completed",   user_id |-> 1] >>

SampleStore == [users |-> SampleUsers, tasks |-> SampleTasks]

\* The keys of a dict of the store, in insertion order.
dict_keys(d) ==
    IF "email" \in DOMAIN d THEN <<"id", "name", "email">>
    ELSE <<"id", "title", "status", "user_id">>

\* json.dumps(d, indent=2) of one dict, nested one level deep in a list.
\* ToString renders an int as its digits and a str in double quotes, which
\* is JSON's rendering of the store's values (none needs an escape).
json_dict(d) ==
    "  {\n"
    \o Join([i \in 1..Len(dict_keys(d)) |->
                "    " \o ToString(dict_keys(d)[i]) \o ": " \o ToString(d[dict_keys(d)[i]])],
            ",\n")
    \o "\n  }"

\* json.dumps(list, indent=2) of a list of dicts.
json_dumps(list) ==
    IF list = <<>> THEN "[]"
    ELSE "[\n" \o Join([i \in 1..Len(list) |-> json_dict(list[i])], ",\n") \o "\n]"

-----------------------------------------------------------------------------
(* Tool 3 and tool 4: the queries of the store.                          *)

\* Python truthiness of an optional str: None and "" are falsy.
truthy_str(o) == o # None /\ TheValue(o) # ""

\* Python truthiness of an optional int: None and 0 are falsy.
truthy_int(o) == o # None /\ TheValue(o) # 0

\* The list comprehension [t for t in tasks if t[key] == value].
filter_by(tasks, key, value) == SelectSeq(tasks, LAMBDA t : t[key] = value)

\* A get_tasks that tells an omitted filter from a falsy one.
get_tasks_is_not_none(data, status, user_id) ==
    LET byStatus == IF status # None
                    THEN filter_by(data.tasks, "status", TheValue(status))
                    ELSE data.tasks
        byUser == IF user_id # None
                  THEN filter_by(byStatus, "user_id", TheValue(user_id))
                  ELSE byStatus
    IN  Return(json_dumps(byUser))

\* What get_tasks does with its arguments: the filters, then the dump.
get_tasks_result(data, status, user_id) ==
    LET byStatus == IF truthy_str(status)
                    THEN filter_by(data.tasks, "status", TheValue(status))
                    ELSE data.tasks
        byUser == IF truthy_int(user_id)
                  THEN filter_by(byStatus, "user_id", TheValue(user_id))
                  ELSE byStatus
    IN  Return(json_dumps(byUser))

\* What get_users does: the dump of the stored list.
get_users_result(data) == Return(json_dumps(data.users))

-----------------------------------------------------------------------------
(* Tool 5: echo.                                                         *)

\* The characters of the messages: a lowercase letter, its uppercase, a
\* letter whose uppercase is two characters (U+00DF, written "sz" here), the
\* uppercase letter it maps to, and a caseless character.
MsgChars == {"a", "A", "sz", "S", "1"}

\* str.upper of one character (the full case mapping: "sz" gives "SS").
upper_char(c) ==
    CASE c = "a"  -> <<"A">>
      [] c = "sz" -> <<"S", "S">>
      [] OTHER    -> <<c>>

\* str.upper: the mapping applied character by character.
str_upper(s) == Flatten([i \in 1..Len(s) |-> upper_char(s[i])])

\* An echo_message that never converts.
echo_message_ignoring_flag(message, uppercase) == Return(message)

\* What echo_message does; uppercase is None when the caller omits it, and
\* the signature then binds False.
echo_message_result(message, uppercase) ==
    LET flag == IF uppercase = None THEN FALSE ELSE TheValue(uppercase)
    IN  IF flag THEN Return(str_upper(message)) ELSE Return(message)

-----------------------------------------------------------------------------
(* Tool 6: word count.                                                   *)

\* The characters of the texts: a letter, the space, and a whitespace
\* character that is not the space (SampleTexts has other letters).
TextChars == {"a", " ", "\t"}

\* Whether str.split() splits on c; of Python's whitespace only the ASCII
\* characters below are written here, and TextChars has two of them.
is_space(c) == c \in {" ", "\t", "\n", "\r"}

RECURSIVE split_from(_, _, _)
\* The scan of str.split(): cur is the word being read (<<>> between words).
split_from(text, i, cur) ==
    IF i > Len(text) THEN (IF cur = <<>> THEN <<>> ELSE <<cur>>)
    ELSE IF is_space(text[i])
         THEN (IF cur = <<>> THEN <<>> ELSE <<cur>>) \o split_from(text, i + 1, <<>>)
         ELSE split_from(text, i + 1, Append(cur, text[i]))

\* text.split(): the maximal runs of non-whitespace characters.
str_split(text) == split_from(text, 1, <<>>)

\* text.replace(" ", ""): only U+0020 is removed.
str_replace_space(text) == SelectSeq(text, LAMBDA c : c # " ")

\* Two decimal digits of n, 0 <= n < 100.
two_digits(n) == IF n < 10 THEN "0" \o ToString(n) ELSE ToString(n)

\* The hundredths nearest to num/den (num >= 0, den > 0), a tie going to the
\* even one.  A double is not the exact quotient, so a tie the double misses
\* may go either way in Python; no tie arises below a text of 15 characters
\* (the word count has to be a multiple of 8).
round_hundredths(num, den) ==
    LET q == (100 * num) \div den
        r == (100 * num) % den
    IN  IF 2 * r > den \/ (2 * r = den /\ q % 2 = 1) THEN q + 1 ELSE q

\* format(num/den, ".2f").
fmt_2f(num, den) ==
    LET h == round_hundredths(num, den)
    IN  ToString(h \div 100) \o "." \o two_digits(h % 100)

\* The f-string of count_words around its four values.
report(word_count, char_count, char_count_no_spaces, average) ==
    "Text Statistics:\n- Word count: " \o ToString(word_count)
    \o "\n- Character count (with spaces): " \o ToString(char_count)
    \o "\n- Character count (without spaces): " \o ToString(char_count_no_spaces)
    \o "\n- Average word length: " \o average \o " characters"

\* A count_words that divides without looking at the word count.
count_words_unguarded(text) ==
    LET word_count == Len(str_split(text))
        char_count_no_spaces == Len(str_replace_space(text))
    IN  IF word_count = 0 THEN Raise("ZeroDivisionError")
        ELSE Return(report(word_count, Len(text), char_count_no_spaces,
                           fmt_2f(char_count_no_spaces, word_count)))

\* What count_words does.
count_words_result(text) ==
    LET words == str_split(text)
        word_count == Len(words)
        char_count == Len(text)
        char_count_no_spaces == Len(str_replace_space(text))
    IN  Return(report(word_count, char_count, char_count_no_spaces,
                      IF word_count > 0
                      THEN fmt_2f(char_count_no_spaces, word_count)
                      ELSE fmt_2f(0, 1)))

-----------------------------------------------------------------------------
(* Tool 1: the time.                                                     *)

\* strftime('%Y-%m-%d %H:%M:%S %Z') of the UTC instant c seconds after
\* 2024-01-01 00:00:00, the earliest reading of the model (c < 3600).
strftime(c) ==
    "2024-01-01 00:" \o two_digits((c \div 60) % 60) \o ":" \o two_digits(c % 60) \o " UTC"

\* What get_current_time does; timezone is None when omitted, and the
\* signature then binds "UTC".  The label is printed, never applied.
get_current_time_result(timezone, now) ==
    LET label == IF timezone = None THEN "UTC" ELSE TheValue(timezone)
    IN  Return("Current time (" \o label \o "): " \o strftime(now))

-----------------------------------------------------------------------------
(* Tool 2: the calculator.  eval(expression, allowed_names) is Python's  *)
(* own evaluator; what follows is its behaviour on the expressions       *)
(* written with the tokens below, separated by spaces.                   *)
(*   - A float is held as the exact fraction num/den in lowest terms:    *)
(*     the model has no rounding error, no signed zero and no overflow.  *)
(*   - "throw_base" stands for a primary such as                         *)
(*       abs((_ for _ in ()).throw(                                      *)
(*           ().__class__.__base__.__subclasses__()[k]))                 *)
(*     with k the index of BaseException: the empty __builtins__ hides   *)
(*     names, not the attributes of a literal, and evaluating it raises  *)
(*     an exception whose class is not a subclass of Exception.          *)
(*   - "foo" stands for any name that allowed_names does not bind.       *)

NumTokens == {"0", "2", "3"}

NameTokens == {"abs", "round", "min", "max", "foo"}

Tokens ==
    NumTokens \cup NameTokens \cup {"+", "-", "*", "/", "(", ")", ",", "and", "throw_base"}

\* int(t) of a number token.
num_value(t) == CASE t = "0" -> 0 [] t = "2" -> 2 [] t = "3" -> 3

\* The names bound in the globals given to eval; __builtins__ is empty.
allowed_names == {"abs", "round", "min", "max"}

\* The exception classes of the model that derive from Exception.
ExceptionClasses ==
    {"SyntaxError", "NameError", "TypeError", "ZeroDivisionError", "ValueError"}

(* ---- the parser: Python's grammar for eval, restricted to Tokens ---- *)

NoParse == [ok |-> FALSE]

Parsed(node, next) == [ok |-> TRUE, node |-> node, next |-> next]

\* The token at position i, "<end>" after the last.
tok(toks, i) == IF i <= Len(toks) THEN toks[i] ELSE "<end>"

RECURSIVE parse(_, _, _, _)
\* The recursive-descent parser, one case for each rule of the grammar: rule
\* is read from position i of toks; acc is the list read so far ("list"),
\* the primary the trailers apply to ("trailers"), or the left operand
\* ("term_rest", "sum_rest", "and_rest"), and is unused by the other rules.
\*   list:       expression (',' expression)* [',']  (the elements, whether
\*               a comma was read, and the position after)
\*   expression: sum ('and' sum)*
\*   sum:        term (('+' | '-') term)*, left to right
\*   term:       factor (('*' | '/') factor)*, left to right
\*   factor:     ('+' | '-') factor | primary
\*   primary:    atom ('(' [list] ')')*
\*   atom:       NUMBER | NAME | '(' ')' | '(' expression ')' | a tuple display
parse(rule, toks, i, acc) ==
    CASE rule = "list" ->
            LET e == parse("expression", toks, i, <<>>)
            IN  IF ~e.ok THEN NoParse
                ELSE IF tok(toks, e.next) # ","
                THEN [ok |-> TRUE, elts |-> Append(acc, e.node), comma |-> FALSE,
                      next |-> e.next]
                ELSE IF tok(toks, e.next + 1) \in {")", "<end>"}
                THEN [ok |-> TRUE, elts |-> Append(acc, e.node), comma |-> TRUE,
                      next |-> e.next + 1]
                ELSE LET r == parse("list", toks, e.next + 1, Append(acc, e.node))
                     IN  IF r.ok THEN [r EXCEPT !.comma = TRUE] ELSE NoParse
      [] rule = "expression" ->
            LET s == parse("sum", toks, i, <<>>)
            IN  IF s.ok THEN parse("and_rest", toks, s.next, s.node) ELSE NoParse
      [] rule = "and_rest" ->
            IF tok(toks, i) # "and" THEN Parsed(acc, i)
            ELSE LET r == parse("sum", toks, i + 1, <<>>)
                 IN  IF ~r.ok THEN NoParse
                     ELSE parse("and_rest", toks, r.next,
                                [op |-> "and", left |-> acc, right |-> r.node])
      [] rule = "sum" ->
            LET t == parse("term", toks, i, <<>>)
            IN  IF t.ok THEN parse("sum_rest", toks, t.next, t.node) ELSE NoParse
      [] rule = "sum_rest" ->
            IF tok(toks, i) \notin {"+", "-"} THEN Parsed(acc, i)
            ELSE LET r == parse("term", toks, i + 1, <<>>)
                 IN  IF ~r.ok THEN NoParse
                     ELSE parse("sum_rest", toks, r.next,
                                [op |-> "bin", sym |-> tok(toks, i), left |-> acc,
                                 right |-> r.node])
      [] rule = "term" ->
            LET f == parse("factor", toks, i, <<>>)
            IN  IF f.ok THEN parse("term_rest", toks, f.next, f.node) ELSE NoParse
      [] rule = "term_rest" ->
            IF tok(toks, i) \notin {"*", "/"} THEN Parsed(acc, i)
            ELSE LET r == parse("factor", toks, i + 1, <<>>)
                 IN  IF ~r.ok THEN NoParse
                     ELSE parse("term_rest", toks, r.next,
                                [op |-> "bin", sym |-> tok(toks, i), left |-> acc,
                                 right |-> r.node])
      [] rule = "factor" ->
            IF tok(toks, i) \notin {"+", "-"} THEN parse("primary", toks, i, <<>>)
            ELSE LET f == parse("factor", toks, i + 1, <<>>)
                 IN  IF f.ok
                     THEN Parsed([op |-> "unary", sym |-> tok(toks, i), arg |-> f.node],
                                 f.next)
                     ELSE NoParse
      [] rule = "primary" ->
            LET a == parse("atom", toks, i, <<>>)
            IN  IF a.ok THEN parse("trailers", toks, a.next, a.node) ELSE NoParse
      [] rule = "trailers" ->
            IF tok(toks, i) # "(" THEN Parsed(acc, i)
            ELSE IF tok(toks, i + 1) = ")"
            THEN parse("trailers", toks, i + 2,
                       [op |-> "call", func |-> acc, args |-> <<>>])
            ELSE LET l == parse("list", toks, i + 1, <<>>)
                 IN  IF ~l.ok \/ tok(toks, l.next) # ")" THEN NoParse
                     ELSE parse("trailers", toks, l.next + 1,
                                [op |-> "call", func |-> acc, args |-> l.elts])
      [] rule = "atom" ->
            LET t == tok(toks, i)
            IN  IF t \in NumTokens THEN Parsed([op |-> "num", n |-> num_value(t)], i + 1)
                ELSE IF t \in NameTokens THEN Parsed([op |-> "name", id |-> t], i + 1)
                ELSE IF t = "throw_base" THEN Parsed([op |-> "throw"], i + 1)
                ELSE IF t # "(" THEN NoParse
                ELSE IF tok(toks, i + 1) = ")"
                THEN Parsed([op |-> "tuple", elts |-> <<>>], i + 2)
                ELSE LET l == parse("list", toks, i + 1, <<>>)
                     IN  IF ~l.ok \/ tok(toks, l.next) # ")" THEN NoParse
                         ELSE IF Len(l.elts) = 1 /\ ~l.comma
                         THEN Parsed(l.elts[1], l.next + 1)
                         ELSE Parsed([op |-> "tuple", elts |-> l.elts], l.next + 1)

\* compile(expression, "<string>", "eval"): the whole input is one
\* expression list; more than one element, or a trailing comma, makes a tuple.
parse_eval_input(toks) ==
    LET l == parse("list", toks, 1, <<>>)
    IN  IF ~l.ok \/ l.next # Len(toks) + 1 THEN NoParse
        ELSE IF Len(l.elts) = 1 /\ ~l.comma THEN Parsed(l.elts[1], l.next)
        ELSE Parsed([op |-> "tuple", elts |-> l.elts], l.next)

(* ---- the values and the operators of the evaluator ---- *)

abs_int(n) == IF n < 0 THEN -n ELSE n

RECURSIVE gcd(_, _)
\* The greatest common divisor of a >= 0 and b >= 0.
gcd(a, b) == IF b = 0 THEN a ELSE gcd(b, a % b)

\* 10 ** k, k >= 0.
pow10(k) == CASE k = 0 -> 1 [] k = 1 -> 10 [] k = 2 -> 100 [] OTHER -> 1000

IntVal(n) == [t |-> "int", n |-> n]

\* The float num/den (den # 0), in lowest terms with den > 0.
FloatVal(num, den) ==
    LET g == gcd(abs_int(num), abs_int(den))
        s == IF den < 0 THEN -1 ELSE 1
    IN  [t |-> "float", num |-> (s * num) \div g, den |-> (s * den) \div g]

FuncVal(name) == [t |-> "func", name |-> name]

TupleVal(items) == [t |-> "tuple", items |-> items]

is_number(v) == v.t \in {"int", "float"}

numer(v) == IF v.t = "int" THEN v.n ELSE v.num

denom(v) == IF v.t = "int" THEN 1 ELSE v.den

\* An evaluation that produced v.
Value(v) == [ok |-> TRUE, v |-> v]

\* An evaluation that raised an exception of class exc.
Raised(exc) == [ok |-> FALSE, exc |-> exc]

\* bool(v).
truthy(v) ==
    CASE v.t = "int"   -> v.n # 0
      [] v.t = "float" -> v.num # 0
      [] v.t = "tuple" -> v.items # <<>>
      [] OTHER         -> TRUE

RECURSIVE repeat(_, _)
\* items * n for a tuple.
repeat(items, n) == IF n <= 0 THEN <<>> ELSE items \o repeat(items, n - 1)

\* a sym b for sym among + - * /.
binary_op(sym, a, b) ==
    IF is_number(a) /\ is_number(b)
    THEN IF sym = "/"
         THEN IF numer(b) = 0 THEN Raised("ZeroDivisionError")
              ELSE Value(FloatVal(numer(a) * denom(b), denom(a) * numer(b)))
         ELSE LET n == CASE sym = "+" -> numer(a) * denom(b) + numer(b) * denom(a)
                         [] sym = "-" -> numer(a) * denom(b) - numer(b) * denom(a)
                         [] sym = "*" -> numer(a) * numer(b)
                  d == denom(a) * denom(b)
              IN  IF a.t = "int" /\ b.t = "int" THEN Value(IntVal(n)) ELSE Value(FloatVal(n, d))
    ELSE IF sym = "+" /\ a.t = "tuple" /\ b.t = "tuple"
    THEN Value(TupleVal(a.items \o b.items))
    ELSE IF sym = "*" /\ a.t = "tuple" /\ b.t = "int" THEN Value(TupleVal(repeat(a.items, b.n)))
    ELSE IF sym = "*" /\ a.t = "int" /\ b.t = "tuple" THEN Value(TupleVal(repeat(b.items, a.n)))
    ELSE Raised("TypeError")

\* +a and -a.
unary_op(sym, a) ==
    IF ~is_number(a) THEN Raised("TypeError")
    ELSE IF sym = "+" THEN Value(a)
    ELSE IF a.t = "int" THEN Value(IntVal(-a.n))
    ELSE Value(FloatVal(-a.num, a.den))

RECURSIVE val_eq(_, _)
\* a == b, which never raises.
val_eq(a, b) ==
    IF is_number(a) /\ is_number(b) THEN numer(a) * denom(b) = numer(b) * denom(a)
    ELSE IF a.t = "tuple" /\ b.t = "tuple"
    THEN /\ Len(a.items) = Len(b.items)
         /\ \A i \in 1..Len(a.items) : val_eq(a.items[i], b.items[i])
    ELSE IF a.t = "func" /\ b.t = "func" THEN a.name = b.name
    ELSE FALSE

RECURSIVE val_lt(_, _)
\* a < b: numbers by value, tuples by their first differing elements.
val_lt(a, b) ==
    IF is_number(a) /\ is_number(b)
    THEN Value(numer(a) * denom(b) < numer(b) * denom(a))
    ELSE IF a.t = "tuple" /\ b.t = "tuple"
    THEN LET m == IF Len(a.items) < Len(b.items) THEN Len(a.items) ELSE Len(b.items)
             differ == {i \in 1..m : ~val_eq(a.items[i], b.items[i])}
         IN  IF differ = {} THEN Value(Len(a.items) < Len(b.items))
             ELSE LET k == CHOOSE i \in differ : \A j \in differ : i <= j
                  IN  val_lt(a.items[k], b.items[k])
    ELSE Raised("TypeError")

RECURSIVE min_max_scan(_, _, _, _)
\* The loop of min and max: a later item replaces the current one when it is
\* smaller (min) or larger (max).
min_max_scan(name, items, i, cur) ==
    IF i > Len(items) THEN Value(cur)
    ELSE LET c == IF name = "min" THEN val_lt(items[i], cur) ELSE val_lt(cur, items[i])
         IN  IF ~c.ok THEN c
             ELSE min_max_scan(name, items, i + 1, IF c.v THEN items[i] ELSE cur)

\* min(*args) and max(*args).
py_min_max(name, call_args) ==
    IF call_args = <<>> THEN Raised("TypeError")
    ELSE IF Len(call_args) = 1 /\ call_args[1].t # "tuple" THEN Raised("TypeError")
    ELSE LET items == IF Len(call_args) = 1 THEN call_args[1].items ELSE call_args
         IN  IF items = <<>> THEN Raised("ValueError")
             ELSE min_max_scan(name, items, 2, items[1])

\* abs(*args).
py_abs(call_args) ==
    IF Len(call_args) # 1 \/ ~is_number(call_args[1]) THEN Raised("TypeError")
    ELSE IF call_args[1].t = "int" THEN Value(IntVal(abs_int(call_args[1].n)))
    ELSE Value(FloatVal(abs_int(call_args[1].num), call_args[1].den))

\* The integer nearest to n/d (d > 0), a tie going to the even one.
round_half_even(n, d) ==
    LET q == n \div d
        r == n % d
    IN  IF 2 * r > d \/ (2 * r = d /\ q % 2 = 1) THEN q + 1 ELSE q

\* round(*args): round(x) is an int; round(x, ndigits) has the type of x.
py_round(call_args) ==
    IF Len(call_args) \notin {1, 2} \/ ~is_number(call_args[1]) THEN Raised("TypeError")
    ELSE LET x == call_args[1]
         IN  IF Len(call_args) = 1
             THEN IF x.t = "int" THEN Value(x)
                  ELSE Value(IntVal(round_half_even(x.num, x.den)))
             ELSE IF call_args[2].t # "int" THEN Raised("TypeError")
             ELSE LET nd == call_args[2].n
                  IN  IF x.t = "int"
                      THEN IF nd >= 0 THEN Value(x)
                           ELSE Value(IntVal(round_half_even(x.n, pow10(-nd)) * pow10(-nd)))
                      ELSE IF nd >= 0
                      THEN Value(FloatVal(round_half_even(x.num * pow10(nd), x.den), pow10(nd)))
                      ELSE Value(FloatVal(round_half_even(x.num, x.den * pow10(-nd))
                                       * pow10(-nd), 1))

\* The call of one of the four functions bound in allowed_names.
call_builtin(name, call_args) ==
    CASE name = "abs"   -> py_abs(call_args)
      [] name = "round" -> py_round(call_args)
      [] OTHER          -> py_min_max(name, call_args)

(* ---- the evaluation of a parsed expression ---- *)

RECURSIVE eval_node(_)
RECURSIVE eval_nodes(_, _, _)

\* The nodes from position i on, left to right, stopping at the first that
\* raises.
eval_nodes(nodes, i, acc) ==
    IF i > Len(nodes) THEN [ok |-> TRUE, vs |-> acc]
    ELSE LET e == eval_node(nodes[i])
         IN  IF e.ok THEN eval_nodes(nodes, i + 1, Append(acc, e.v)) ELSE e

eval_node(node) ==
    CASE node.op = "num"   -> Value(IntVal(node.n))
      [] node.op = "name"  ->
            IF node.id \in allowed_names THEN Value(FuncVal(node.id)) ELSE Raised("NameError")
      [] node.op = "throw" -> Raised("BaseException")
      [] node.op = "unary" ->
            LET a == eval_node(node.arg)
            IN  IF a.ok THEN unary_op(node.sym, a.v) ELSE a
      [] node.op = "bin"   ->
            LET l == eval_node(node.left)
            IN  IF ~l.ok THEN l
                ELSE LET r == eval_node(node.right)
                     IN  IF r.ok THEN binary_op(node.sym, l.v, r.v) ELSE r
      [] node.op = "and"   ->
            LET l == eval_node(node.left)
            IN  IF l.ok /\ truthy(l.v) THEN eval_node(node.right) ELSE l
      [] node.op = "tuple" ->
            LET es == eval_nodes(node.elts, 1, <<>>)
            IN  IF es.ok THEN Value(TupleVal(es.vs)) ELSE es
      [] node.op = "call"  ->
            LET f == eval_node(node.func)
            IN  IF ~f.ok THEN f
                ELSE LET as == eval_nodes(node.args, 1, <<>>)
                     IN  IF ~as.ok THEN as
                         ELSE IF f.v.t # "func" THEN Raised("TypeError")
                         ELSE call_builtin(f.v.name, as.vs)

\* eval(expression, allowed_names): compile, then evaluate.
py_eval(expression) ==
    LET p == parse_eval_input(expression)
    IN  IF p.ok THEN eval_node(p.node) ELSE Raised("SyntaxError")

\* What calculate does: the try block around eval and the f-string, and the
\* except clause, which catches the subclasses of Exception only.  The
\* returned str is held as its literal prefix and what is formatted after it
\* (the result, or the exception in place of its message).
calculate_result(expression) ==
    LET r == py_eval(expression)
    IN  IF r.ok THEN Return([prefix |-> "Result: ", arg |-> r.v])
        ELSE IF r.exc \in ExceptionClasses
        THEN Return([prefix |-> "Error evaluating expression: ", arg |-> r.exc])
        ELSE Raise(r.exc)

-----------------------------------------------------------------------------
(* The tool calls the runtime may dispatch.                              *)

\* Expressions longer than MaxTokens: the docstring's kind, and one for each
\* construct of the evaluator.
SampleExpressions ==
    { <<"2", "+", "2">>,
      <<"2", "-", "3", "-", "2">>,
      <<"2", "+", "3", "*", "2">>,
      <<"(", "2", "+", "3", ")", "*", "2">>,
      <<"3", "/", "2">>,
      <<"2", "/", "3", "/", "2">>,
      <<"2", "/", "(", "2", "-", "2", ")">>,
      <<"-", "3", "*", "-", "2">>,
      <<"abs", "(", "2", "-", "3", ")">>,
      <<"abs", "(", "-", "3", "/", "2", ")">>,
      <<"round", "(", "3", "/", "2", ")">>,
      <<"round", "(", "2", "/", "3", ",", "2", ")">>,
      <<"round", "(", "3", ",", "-", "2", ")">>,
      <<"min", "(", "2", ",", "3", ")">>,
      <<"max", "(", "2", ",", "3", "/", "2", ")">>,
      <<"max", "(", "2", ",", "2", "/", "2", "+", "3", ")">>,
      <<"min", "(", "2", ")">>,
      <<"min", "(", "(", "3", ",", "2", ")", ")">>,
      <<"min", "(", "2", ",", "foo", ")">>,
      <<"foo", "(", "2", ")">>,
      <<"2", "+", "foo">>,
      <<"0", "and", "foo">>,
      <<"2", "and", "foo">>,
      <<"(", "0", "and", "foo", ")", "+", "2">>,
      <<"2", "+", "*", "3">>,
      <<"(", "2", "+", "3">>,
      <<"0", "and", "throw_base">>,
      <<"2", "+", "throw_base">>,
      <<"foo", "+", "throw_base">> }

Expressions == SeqsUpTo(Tokens, MaxTokens) \cup SampleExpressions

\* A text longer than MaxTextLen: "a bb ccc".
SampleTexts == { <<"a", " ", "b", "b", " ", "c", "c", "c">> }

Texts == SeqsUpTo(TextChars, MaxTextLen) \cup SampleTexts

Messages == SeqsUpTo(MsgChars, MaxMsgLen)

\* The status values: the three of the store, the empty string and one that
\* no task has.
Statuses == {"pending", "in_progress", "completed", "", "done"}

UserIds == -1..MaxUserId

Optional(S) == {None} \cup {Some(v) : v \in S}

Requests ==
    {[tool |-> "get_current_time", timezone |-> z] : z \in Optional({"UTC", "EST"})}
    \cup {[tool |-> "calculate", expression |-> e] : e \in Expressions}
    \cup {[tool |-> "get_users"]}
    \cup {[tool |-> "get_tasks", status |-> s, user_id |-> u] :
            s \in Optional(Statuses), u \in Optional(UserIds)}
    \cup {[tool |-> "echo_message", message |-> m, uppercase |-> u] :
            m \in Messages, u \in Optional(BOOLEAN)}
    \cup {[tool |-> "count_words", text |-> t] : t \in Texts}

-----------------------------------------------------------------------------
(* The bootstrap: the __main__ block.                                    *)

\* The choices of --transport.
Transports == {"stdio", "sse", "streamable-http"}

\* The default of --port.
DefaultPort == 3000

\* The command lines of the model: each flag omitted or given; "http" is a
\* --transport value outside the choices.
CommandLines ==
    [transport : Optional(Transports \cup {"http"}),
     port : Optional({8080}),
     host : Optional({"127.0.0.1"})]

\* A flag's value, or its default when the flag is omitted.
flag(given, default) == IF given = None THEN default ELSE TheValue(given)

\* A parser whose --transport default is the one its help text states.
namespace_help_text_default(cmd) ==
    [transport |-> flag(cmd.transport, "stdio"),
     port |-> flag(cmd.port, DefaultPort),
     host |-> flag(cmd.host, "0.0.0.0")]

\* The namespace parse_args builds from an accepted command line.
namespace(cmd) ==
    [transport |-> flag(cmd.transport, "streamable-http"),
     port |-> flag(cmd.port, DefaultPort),
     host |-> flag(cmd.host, "0.0.0.0")]

\* The calls of mcp.run the if/elif chain makes for a namespace: one, with
\* port and host as keyword arguments except for stdio.
run_calls(ns) ==
    CASE ns.transport = "stdio" ->
            << [transport |-> "stdio", port |-> None, host |-> None] >>
      [] ns.transport = "sse" ->
            << [transport |-> "sse", port |-> Some(ns.port), host |-> Some(ns.host)] >>
      [] ns.transport = "streamable-http" ->
            << [transport |-> "streamable-http", port |-> Some(ns.port),
                host |-> Some(ns.host)] >>
      [] OTHER -> << >>

\* parser.parse_args(): a --transport outside the choices ends the process
\* with a usage error.
parse_args ==
    /\ pc = "start"
    /\ IF argv.transport = None \/ TheValue(argv.transport) \in Transports
       THEN /\ args' = Some(namespace(argv))
            /\ pc' = "parsed"
       ELSE /\ args' = None
            /\ pc' = "usage_error"
    /\ UNCHANGED <<argv, runCalls, SAMPLE_DATA, request, response, firstUsers>>

\* The if/elif chain: control passes to the runtime, which serves requests
\* until it returns.
run_server ==
    /\ pc = "parsed"
    /\ runCalls' = runCalls \o run_calls(TheValue(args))
    /\ pc' = "serving"
    /\ UNCHANGED <<argv, args, SAMPLE_DATA, request, response, firstUsers>>

\* mcp.run returns and the process ends.
exit ==
    /\ pc = "serving"
    /\ request = None
    /\ pc' = "exited"
    /\ UNCHANGED <<argv, args, runCalls, SAMPLE_DATA, request, response, firstUsers>>

-----------------------------------------------------------------------------
(* The runtime's dispatch and the six handlers.                          *)

\* The runtime reads a tool call.
receive ==
    /\ pc = "serving"
    /\ request = None
    /\ \E r \in Requests : request' = Some(r)
    /\ UNCHANGED <<pc, argv, args, runCalls, SAMPLE_DATA, response, firstUsers>>

\* The runtime is dispatching a call of the named tool.
dispatching(tool) ==
    /\ pc = "serving"
    /\ request # None
    /\ response = None
    /\ TheValue(request).tool = tool

\* datetime.now reads the wall clock, which the handler does not control:
\* any reading may follow any other.
get_current_time ==
    /\ dispatching("get_current_time")
    /\ \E now \in 0..MaxClock :
          response' = Some(get_current_time_result(TheValue(request).timezone, now))
    /\ UNCHANGED <<pc, argv, args, runCalls, SAMPLE_DATA, request, firstUsers>>

calculate ==
    /\ dispatching("calculate")
    /\ response' = Some(calculate_result(TheValue(request).expression))
    /\ UNCHANGED <<pc, argv, args, runCalls, SAMPLE_DATA, request, firstUsers>>

\* The history of get_users after a call that produced result.
remember(history, result) ==
    IF history = None THEN Some([first |-> result, again |-> FALSE])
    ELSE Some([TheValue(history) EXCEPT !.again = TRUE])

\* A get_users that reverses the stored list before dumping it.
get_users_reversing ==
    /\ dispatching("get_users")
    /\ SAMPLE_DATA' = [SAMPLE_DATA EXCEPT
                         !.users = [i \in 1..Len(@) |-> @[Len(@) + 1 - i]]]
    /\ response' = Some(get_users_result(SAMPLE_DATA'))
    /\ firstUsers' = remember(firstUsers, get_users_result(SAMPLE_DATA'))
    /\ UNCHANGED <<pc, argv, args, runCalls, request>>

get_users ==
    /\ dispatching("get_users")
    /\ response' = Some(get_users_result(SAMPLE_DATA))
    /\ firstUsers' = remember(firstUsers, get_users_result(SAMPLE_DATA))
    /\ UNCHANGED <<pc, argv, args, runCalls, SAMPLE_DATA, request>>

\* A get_tasks that filters the stored list in place.
get_tasks_in_place ==
    /\ dispatching("get_tasks")
    /\ LET r == TheValue(request)
           byStatus == IF truthy_str(r.status)
                       THEN filter_by(SAMPLE_DATA.tasks, "status", TheValue(r.status))
                       ELSE SAMPLE_DATA.tasks
           byUser == IF truthy_int(r.user_id)
                     THEN filter_by(byStatus, "user_id", TheValue(r.user_id))
                     ELSE byStatus
       IN  /\ SAMPLE_DATA' = [SAMPLE_DATA EXCEPT !.tasks = byUser]
           /\ response' = Some(Return(json_dumps(byUser)))
    /\ UNCHANGED <<pc, argv, args, runCalls, request, firstUsers>>

get_tasks ==
    /\ dispatching("get_tasks")
    /\ response' = Some(get_tasks_result(SAMPLE_DATA, TheValue(request).status,
                                         TheValue(request).user_id))
    /\ UNCHANGED <<pc, argv, args, runCalls, SAMPLE_DATA, request, firstUsers>>

echo_message ==
    /\ dispatching("echo_message")
    /\ response' = Some(echo_message_result(TheValue(request).message,
                                            TheValue(request).uppercase))
    /\ UNCHANGED <<pc, argv, args, runCalls, SAMPLE_DATA, request, firstUsers>>

count_words ==
    /\ dispatching("count_words")
    /\ response' = Some(count_words_result(TheValue(request).text))
    /\ UNCHANGED <<pc, argv, args, runCalls, SAMPLE_DATA, request, firstUsers>>

\* The runtime sends the handler's result (or reports its fault) and is
\* ready for the next call.
reply ==
    /\ pc = "serving"
    /\ request # None
    /\ response # None
    /\ request' = None
    /\ response' = None
    /\ UNCHANGED <<pc, argv, args, runCalls, SAMPLE_DATA, firstUsers>>

-----------------------------------------------------------------------------
(* The specification.                                                    *)

Init ==
    /\ pc = "start"
    /\ argv \in CommandLines
    /\ args = None
    /\ runCalls = << >>
    /\ SAMPLE_DATA = SampleStore
    /\ request = None
    /\ response = None
    /\ firstUsers = None

Next ==
    \/ parse_args
    \/ run_server
    \/ exit
    \/ receive
    \/ get_current_time
    \/ calculate
    \/ get_users
    \/ get_tasks
    \/ echo_message
    \/ count_words
    \/ reply

Spec == Init /\ [][Next]_vars

-----------------------------------------------------------------------------
(* The properties.                                                       *)

\* The call being dispatched and what its handler produced.
req == TheValue(request)

resp == TheValue(response)

\* The handler of the named tool has run and its result is not yet sent.
Answered(tool) == request # None /\ response # None /\ req.tool = tool

\* A task passes the filters that are given (None: the filter is omitted).
matches(t, status, user_id) ==
    /\ status # None => t.status = TheValue(status)
    /\ user_id # None => t.user_id = TheValue(user_id)

\* C1: for every status and user_id, each omitted or given, get_tasks returns
\* exactly the tasks of the sample store that match all the given filters, in
\* the store's order; an omitted filter passes every task.
C1_TasksMatchGivenFilters ==
    Answered("get_tasks") =>
        resp = Return(json_dumps(SelectSeq(SampleTasks,
                        LAMBDA t : matches(t, req.status, req.user_id))))

\* C2: for every input, calculate returns a string, "Result: ..." when the
\* evaluation succeeds and "Error evaluating expression: ..." when it fails
\* for whatever reason; no failure of the evaluation leaves the handler as a
\* raised fault.
C2_CalculateAlwaysReturns ==
    Answered("calculate") =>
        /\ resp.kind = "return"
        /\ resp.value.prefix =
              IF py_eval(req.expression).ok THEN "Result: "
              ELSE "Error evaluating expression: "

\* The arithmetic values of the sample expressions written with numbers,
\* + - * /, parentheses and abs, round, min, max only, as num/den.
ArithmeticValues ==
    { <<(<<"2", "+", "2">>), 4, 1>>,
      <<(<<"2", "-", "3", "-", "2">>), -3, 1>>,
      <<(<<"2", "+", "3", "*", "2">>), 8, 1>>,
      <<(<<"(", "2", "+", "3", ")", "*", "2">>), 10, 1>>,
      <<(<<"3", "/", "2">>), 3, 2>>,
      <<(<<"2", "/", "3", "/", "2">>), 1, 3>>,
      <<(<<"-", "3", "*", "-", "2">>), 6, 1>>,
      <<(<<"abs", "(", "2", "-", "3", ")">>), 1, 1>>,
      <<(<<"abs", "(", "-", "3", "/", "2", ")">>), 3, 2>>,
      <<(<<"round", "(", "3", "/", "2", ")">>), 2, 1>>,
      <<(<<"min", "(", "2", ",", "3", ")">>), 2, 1>>,
      <<(<<"max", "(", "2", ",", "3", "/", "2", ")">>), 2, 1>>,
      <<(<<"max", "(", "2", ",", "2", "/", "2", "+", "3", ")">>), 4, 1>> }

\* C3: for a well-formed expression of numbers, + - * /, parentheses and
\* calls of abs, round, min and max, calculate returns "Result: v" with v the
\* arithmetic value (stated for the expressions of ArithmeticValues); for
\* every input that uses any other name it returns an error string, not a
\* result.
C3_CalculateArithmeticOrError ==
    Answered("calculate") =>
        /\ \A a \in ArithmeticValues :
              req.expression = a[1] =>
                  /\ resp.kind = "return"
                  /\ resp.value.prefix = "Result: "
                  /\ is_number(resp.value.arg)
                  /\ numer(resp.value.arg) * a[3] = a[2] * denom(resp.value.arg)
        /\ (\E i \in 1..Len(req.expression) : req.expression[i] = "foo") =>
              /\ resp.kind = "return"
              /\ resp.value.prefix = "Error evaluating expression: "

\* C4: for every status that is given and is not pending, in_progress or
\* completed (the empty string included), get_tasks returns an empty
\* collection and raises nothing, whatever user_id is.
C4_InvalidStatusGivesEmpty ==
    (/\ Answered("get_tasks")
     /\ req.status # None
     /\ TheValue(req.status) \notin {"pending", "in_progress", "completed"})
    => resp = Return("[]")

\* The positions where a word of text starts: a character that is not
\* whitespace, first of the text or after whitespace.
word_starts(text) ==
    {i \in 1..Len(text) : ~is_space(text[i]) /\ (i = 1 \/ is_space(text[i - 1]))}

\* C5: for every text, count_words reports the number of whitespace-separated
\* tokens, the length of the text, the length without its space characters,
\* and the quotient of the last by the first to 2 decimal places (within half
\* a hundredth of it); when there is no word the average is reported as 0
\* and nothing is divided by zero.
C5_CountWordsReport ==
    Answered("count_words") =>
        LET text == req.text
            w == Cardinality(word_starts(text))
            c == Len(text)
            n == Cardinality({i \in 1..Len(text) : text[i] # " "})
        IN  IF w = 0 THEN resp = Return(report(0, c, n, "0.00"))
            ELSE \E h \in 0..(100 * c) :
                    /\ 2 * abs_int(100 * n - h * w) <= w
                    /\ resp = Return(report(w, c, n,
                                ToString(h \div 100) \o "." \o two_digits(h % 100)))

\* C5's case: a text of whitespace only, a space and a tab, has been counted.
C5_Witness ==
    /\ Answered("count_words")
    /\ req.text = <<" ", "\t">>
    /\ resp = Return(report(0, 2, 1, "0.00"))

\* C6: echo_message returns the message unchanged when uppercase is false or
\* omitted and the uppercased message when it is true; echoing the result
\* again with the same flag returns that result.
C6_EchoIdempotent ==
    Answered("echo_message") =>
        /\ resp.kind = "return"
        /\ req.uppercase \in {None, Some(FALSE)} => resp.value = req.message
        /\ req.uppercase = Some(TRUE) => resp.value = str_upper(req.message)
        /\ echo_message_result(resp.value, req.uppercase) = resp

\* C6's case: a message with a lowercase letter and a letter whose uppercase
\* is two characters has been echoed in uppercase.
C6_Witness ==
    /\ Answered("echo_message")
    /\ req.uppercase = Some(TRUE)
    /\ req.message = <<"a", "sz", "1">>
    /\ resp = Return(<<"A", "S", "S", "1">>)

\* The dump of the three users, as json.dumps(..., indent=2) writes it.
UsersText ==
    "[\n  {\n    \"id\": 1,\n    \"name\": \"Alice\",\n    \"email\": \"alice@example.com\"\n  },\n"
    \o "  {\n    \"id\": 2,\n    \"name\": \"Bob\",\n    \"email\": \"bob@example.com\"\n  },\n"
    \o "  {\n    \"id\": 3,\n    \"name\": \"Charlie\",\n    \"email\": \"charlie@example.com\"\n  }\n]"

HandlerStep == request # None /\ response = None /\ response' # None

=============================================================================
